---------------------------- MODULE Spec2Model ----------------------------
(***************************************************************************)
(* A model of lazysequence.py: the LazySequence class (a read-only         *)
(* sequence computing its elements on demand from a base sequence, a       *)
(* range of base indices and a list of map functions), its per-instance    *)
(* WeakValueDictionary cache and the class-wide deque of strong            *)
(* references.                                                             *)
(*                                                                         *)
(* Python values that the model has to tell apart:                         *)
(*   - None is <<>> and a given integer n is <<n>> (slice fields);         *)
(*   - an element value is [val |-> Int, weak |-> BOOLEAN]: weak says      *)
(*     whether the value has a __weakref__ attribute (an int has none);    *)
(*   - an object that can be weakly referenced has an identity (a key of   *)
(*     heap); it is reclaimed as soon as no strong reference is left       *)
(*     (reference counting), and its WeakValueDictionary entries go with   *)
(*     it.                                                                 *)
(***************************************************************************)
EXTENDS Integers, Sequences, FiniteSets, TLC

(***************************************************************************)
(* Bounds of the model.                                                    *)
(***************************************************************************)
\* number of values the caller keeps a strong reference to
MaxHeld == 1
\* maxlen of the deque _ref_lru (10000 in the source, scaled down so that
\* the deque fills up)
PoolMaxLen == 2

(***************************************************************************)
(* Inputs.                                                                 *)
(***************************************************************************)
NoneV == <<>>

Some(n) == <<n>>

\* The base sequences the caller wraps: objects 1 and 2 are two distinct
\* lists with equal contents, object 3 is an empty list.
BaseItems == << <<2, 0, 1>>, <<2, 0, 1>>, <<>> >>

BaseIds == DOMAIN BaseItems

\* The caller's map functions: "sq" is lambda x: x * x, "box" is a function
\* returning a weakly referenceable object that carries x + 1.
Funcs == {"sq", "box"}

\* What the caller may pass as map_func: None, one of the functions above,
\* "two_args" (lambda x, y: x, a callable that cannot be called with one
\* argument) or "not_callable" (an object without __call__).
MapArgs == Funcs \cup {"None", "two_args", "not_callable"}

\* IsCallable that accepts every object.
IsCallableAlways(map_func) == TRUE

\* isinstance(map_func, Callable)
IsCallable(map_func) == map_func \in Funcs \cup {"two_args"}

SliceArgs == {NoneV, Some(-4), Some(-1), Some(1), Some(4)}

StepArgs == {NoneV, Some(-2), Some(-1), Some(2)}

\* start and stop absent, negative or positive, within the sequence or beyond
\* it; the step absent, negative or positive; and one slice of step 0.
Slices ==
    [start : SliceArgs, stop : SliceArgs, step : StepArgs]
        \cup {[start |-> NoneV, stop |-> NoneV, step |-> Some(0)]}

\* Integer indices: two of them beyond every sequence, one from the end and
\* one from the start.
Indices == {-4, -1, 0, 3}

\* The caller's variables that hold a LazySequence (lazy and lazy_s in
\* random_test).
SeqVars == {"lazy", "lazy_s"}

(***************************************************************************)
(* Values and map functions.                                               *)
(***************************************************************************)
Raw(n) == [val |-> n, weak |-> FALSE]

id_func(x) == x

CallFunc(m, x) ==
    CASE m = "id_func" -> id_func(x)
      [] m = "sq"      -> [val |-> x.val * x.val, weak |-> x.weak]
      [] m = "box"     -> [val |-> x.val + 1, weak |-> TRUE]

\* _apply_maps: for m in self._map_funcs: val = m(val)
RECURSIVE apply_maps(_, _)
apply_maps(map_funcs, val) ==
    IF map_funcs = <<>> THEN val
    ELSE apply_maps(Tail(map_funcs), CallFunc(Head(map_funcs), val))

\* Whether _apply_maps raises: m(val) raises TypeError for a function that
\* cannot be called with one argument.
ApplyRaises(map_funcs) ==
    \E k \in DOMAIN map_funcs : map_funcs[k] \notin Funcs \cup {"id_func"}

\* HasWeakref that takes every value for weakly referenceable.
HasWeakrefAlways(item) == TRUE

\* hasattr(item, '__weakref__')
HasWeakref(item) == item.weak

(***************************************************************************)
(* Python's range objects and slices.                                      *)
(***************************************************************************)
Min(a, b) == IF a < b THEN a ELSE b

Max(a, b) == IF a > b THEN a ELSE b

\* range(len(seq))
FullRange(n) == [start |-> 0, stop |-> n, step |-> 1]

\* RangeLen with the quotient rounded down instead of up.
RangeLenFloor(r) ==
    IF r.step > 0
    THEN IF r.start < r.stop THEN (r.stop - r.start) \div r.step ELSE 0
    ELSE IF r.start > r.stop THEN (r.start - r.stop) \div (-r.step) ELSE 0

\* len(range(start, stop, step))
RangeLen(r) ==
    IF r.step > 0
    THEN IF r.start < r.stop THEN ((r.stop - r.start - 1) \div r.step) + 1 ELSE 0
    ELSE IF r.start > r.stop THEN ((r.start - r.stop - 1) \div (-r.step)) + 1 ELSE 0

\* RangeHas without the negative indices.
RangeHasNonNegative(r, i) == i >= 0 /\ i < RangeLen(r)

\* Whether r[i] is defined: a negative i counts from the end.
RangeHas(r, i) ==
    LET n == RangeLen(r)
        j == IF i < 0 THEN i + n ELSE i
    IN  j >= 0 /\ j < n

\* r[i] for an integer i with RangeHas(r, i)
RangeItem(r, i) ==
    LET j == IF i < 0 THEN i + RangeLen(r) ELSE i
    IN  r.start + j * r.step

\* slice.indices(n): the start, stop and step a slice stands for on a
\* sequence of length n; the step must not be 0.
SliceIndices(sl, n) ==
    LET step  == IF sl.step = NoneV THEN 1 ELSE sl.step[1]
        lower == IF step < 0 THEN -1 ELSE 0
        upper == IF step < 0 THEN n - 1 ELSE n
        start == IF sl.start = NoneV THEN (IF step < 0 THEN upper ELSE lower)
                 ELSE IF sl.start[1] < 0 THEN Max(sl.start[1] + n, lower)
                 ELSE Min(sl.start[1], upper)
        stop  == IF sl.stop = NoneV THEN (IF step < 0 THEN lower ELSE upper)
                 ELSE IF sl.stop[1] < 0 THEN Max(sl.stop[1] + n, lower)
                 ELSE Min(sl.stop[1], upper)
    IN  [start |-> start, stop |-> stop, step |-> step]

\* SliceRaises that also rejects a start beyond the sequence.
SliceRaisesBeyond(sl) ==
    sl.step = Some(0) \/ (sl.start # NoneV /\ (sl.start[1] > 3 \/ sl.start[1] < -3))

\* A slice whose step is 0 raises ValueError.
SliceRaises(sl) == sl.step = Some(0)

\* RangeSlice that takes the slice of the full range, not of r.
RangeSliceOfBase(r, sl) ==
    LET ix == SliceIndices(sl, RangeLen(r))
    IN  [start |-> ix.start, stop |-> ix.stop, step |-> ix.step]

\* r[sl] for a range r: a new range, no element is touched.
RangeSlice(r, sl) ==
    LET ix == SliceIndices(sl, RangeLen(r))
    IN  [start |-> r.start + ix.start * r.step,
         stop  |-> r.start + ix.stop * r.step,
         step  |-> ix.step * r.step]

\* The elements of xs at i, i + step, ... as long as stop is not reached.
RECURSIVE Walk(_, _, _, _)
Walk(xs, i, stop, step) ==
    IF (step > 0 /\ i >= stop) \/ (step < 0 /\ i <= stop) THEN <<>>
    ELSE <<xs[i + 1]>> \o Walk(xs, i + step, stop, step)

\* xs[sl] for a list xs (seq[s1], seq_s[s2] in random_test)
ListSlice(xs, sl) ==
    LET ix == SliceIndices(sl, Len(xs))
    IN  Walk(xs, ix.start, ix.stop, ix.step)

\* list(map(f, xs))
ListMap(m, xs) == [k \in 1 .. Len(xs) |-> CallFunc(m, xs[k])]


(***************************************************************************)
(* The state.                                                              *)
(*   seqs     the LazySequence object each of the caller's variables is    *)
(*            bound to: base_seq (identity of the base), base_range,       *)
(*            map_funcs, weakref_cache (index -> object)                   *)
(*   heap     the weakly referenceable objects that are alive              *)
(*   ref_lru  LazySequence._ref_lru: the deque of strong references        *)
(*   held     the objects the caller still holds a reference to            *)
(*   eager    for each variable, the list random_test builds eagerly by    *)
(*            the same maps and slices (seq, seq_s)                        *)
(*   depth    for each variable, the number of slices its sequence went    *)
(*            through                                                      *)
(*   log      where it is kept: the latest element reads that gave a       *)
(*            weakly referenceable value, oldest first: which element, and *)
(*            whether _apply_maps ran                                      *)
(*   last     what the last operation was and how it ended                 *)
(***************************************************************************)
VARIABLES seqs, heap, ref_lru, held, eager, depth, log, last

vars == <<seqs, heap, ref_lru, held, eager, depth, log, last>>

Range(f) == {f[x] : x \in DOMAIN f}

Restrict(f, S) == [x \in S |-> f[x]]

Extend(f, k, v) == [x \in DOMAIN f \cup {k} |-> IF x = k THEN v ELSE f[x]]

EmptyMap == [x \in {} |-> 0]

\* The part of the state an element access reads and writes.
Store == [seqs |-> seqs, heap |-> heap, ref_lru |-> ref_lru, held |-> held]

\* The objects with a strong reference left.
Live(st) == Range(st.ref_lru.items) \cup st.held

\* Reference counting: an object without a strong reference is reclaimed and
\* every WeakValueDictionary drops its entry.
Reclaim(st) ==
    [st EXCEPT
       !.heap = Restrict(@, DOMAIN @ \cap Live(st)),
       !.seqs = [v \in DOMAIN @ |->
                   [@[v] EXCEPT !.weakref_cache =
                       Restrict(@, {i \in DOMAIN @ : @[i] \in Live(st)})]]]

\* The identity of the object computed for index by the sequence bound to
\* v: one that no live object has.
NewObj(st, v, index) ==
    LET free(g) == [owner |-> v, index |-> index, gen |-> g] \notin DOMAIN st.heap
        g == CHOOSE n \in 0 .. Cardinality(DOMAIN st.heap) :
                 free(n) /\ \A k \in 0 .. (n - 1) : ~free(k)
    IN  [owner |-> v, index |-> index, gen |-> g]

\* DequeAppend on a deque without a maxlen.
DequeAppendUnbounded(d, x) == [d EXCEPT !.items = Append(@, x)]

\* DequeAppend on a deque that makes room by dropping its two oldest items.
DequeAppendDropsTwo(d, x) ==
    [d EXCEPT !.items = IF Len(@) >= d.maxlen
                        THEN SubSeq(@, 3, Len(@)) \o <<x>>
                        ELSE Append(@, x)]

\* DequeAppend on a deque that counts the items of each sequence apart: room
\* is made only when the sequence that computed x has maxlen items in it, by
\* dropping the oldest of these.
DequeAppendPerOwner(d, x) ==
    LET own == {k \in DOMAIN d.items : d.items[k].owner = x.owner}
        old == CHOOSE k \in own : \A j \in own : k <= j
    IN  [d EXCEPT !.items =
            IF Cardinality(own) >= d.maxlen
            THEN SubSeq(@, 1, old - 1) \o SubSeq(@, old + 1, Len(@)) \o <<x>>
            ELSE Append(@, x)]

\* deque.append on a deque with a maxlen: a full deque drops its oldest
\* item.
DequeAppend(d, x) ==
    LET a == Append(d.items, x)
    IN  [d EXCEPT !.items = IF Len(a) > d.maxlen
                            THEN SubSeq(a, Len(a) - d.maxlen + 1, Len(a))
                            ELSE a]

\* list.__getitem__ of the base sequence
BaseHas(b, i) ==
    LET n == Len(BaseItems[b])
        j == IF i < 0 THEN i + n ELSE i
    IN  j >= 0 /\ j < n

BaseItem(b, i) ==
    LET n == Len(BaseItems[b])
        j == IF i < 0 THEN i + n ELSE i
    IN  Raw(BaseItems[b][j + 1])

\* CacheGet that never finds anything.
CacheGetMiss(ca, index) == <<>>

\* item = ca[index] if index in ca else None: the cached object, if any.
CacheGet(ca, index) == IF index \in DOMAIN ca THEN <<ca[index]>> ELSE <<>>

\* The else branch of __getitem__ (an integer index) on the object bound to
\* v: the store it leaves, the exception it raises, the number of times
\* _apply_maps ran, the item it returns and the object that item is.
GetInt(st, v, index) ==
    LET self == st.seqs[v]
        ca   == self.weakref_cache
        hit  == CacheGet(ca, index)
    IN  IF hit # <<>>
        THEN [st |-> st, raised |-> "none", computed |-> 0,
              item |-> <<st.heap[hit[1]]>>, obj |-> hit]
        ELSE IF ~RangeHas(self.base_range, index)
                \/ ~BaseHas(self.base_seq, RangeItem(self.base_range, index))
        THEN [st |-> st, raised |-> "IndexError", computed |-> 0,
              item |-> <<>>, obj |-> <<>>]
        ELSE IF ApplyRaises(self.map_funcs)
        THEN [st |-> st, raised |-> "TypeError", computed |-> 1,
              item |-> <<>>, obj |-> <<>>]
        ELSE LET item == apply_maps(self.map_funcs,
                            BaseItem(self.base_seq,
                                     RangeItem(self.base_range, index)))
                 o    == NewObj(st, v, index)
             IN  IF HasWeakref(item)
                 THEN [st |-> Reclaim(
                          [st EXCEPT
                             !.heap = Extend(@, o, item),
                             !.seqs[v].weakref_cache = Extend(@, index, o),
                             !.ref_lru = DequeAppend(@, o)]),
                       raised |-> "none", computed |-> 1,
                       item |-> <<item>>, obj |-> <<o>>]
                 ELSE [st |-> st, raised |-> "none", computed |-> 1,
                       item |-> <<item>>, obj |-> <<>>]


(***************************************************************************)
(* Construction.                                                           *)
(***************************************************************************)
\* What the caller may pass as seq: one of its LazySequence variables, one
\* of the base lists, "duck" (an object of a class that defines __len__ and
\* __getitem__ and is not a Sequence) or "other" (an object without either,
\* such as an int).
SeqArgs ==
    [kind : {"lazy"}, ref : SeqVars] \cup [kind : {"base"}, ref : BaseIds]
        \cup {[kind |-> "duck", ref |-> 0], [kind |-> "other", ref |-> 0]}

\* NewSeq that takes a copy of the base of the sequence it is given (base 2
\* is equal to base 1, and another object).
NewSeqCopy(seq, map_func) ==
    IF map_func # "None" /\ ~IsCallable(map_func)
    THEN [raised |-> "ValueError", self |-> <<>>]
    ELSE IF seq.kind = "lazy"
    THEN [raised |-> "none",
          self |-> <<[base_seq      |-> IF seqs[seq.ref].base_seq = 1 THEN 2
                                        ELSE seqs[seq.ref].base_seq,
                      base_range    |-> seqs[seq.ref].base_range,
                      weakref_cache |-> EmptyMap,
                      map_funcs     |-> seqs[seq.ref].map_funcs \o
                                        (IF map_func # "None"
                                         THEN <<map_func>> ELSE <<>>)]>>]
    ELSE IF seq.kind = "base"
    THEN [raised |-> "none",
          self |-> <<[base_seq      |-> seq.ref,
                      base_range    |-> FullRange(Len(BaseItems[seq.ref])),
                      weakref_cache |-> EmptyMap,
                      map_funcs     |-> <<IF map_func = "None"
                                          THEN "id_func" ELSE map_func>>]>>]
    ELSE [raised |-> "ValueError", self |-> <<>>]

\* NewSeq that starts a sequence derived from a LazySequence with the cache
\* entries of its source.
NewSeqKeepsCache(seq, map_func) ==
    IF map_func # "None" /\ ~IsCallable(map_func)
    THEN [raised |-> "ValueError", self |-> <<>>]
    ELSE IF seq.kind = "lazy"
    THEN [raised |-> "none",
          self |-> <<[base_seq      |-> seqs[seq.ref].base_seq,
                      base_range    |-> seqs[seq.ref].base_range,
                      weakref_cache |-> seqs[seq.ref].weakref_cache,
                      map_funcs     |-> seqs[seq.ref].map_funcs \o
                                        (IF map_func # "None"
                                         THEN <<map_func>> ELSE <<>>)]>>]
    ELSE IF seq.kind = "base"
    THEN [raised |-> "none",
          self |-> <<[base_seq      |-> seq.ref,
                      base_range    |-> FullRange(Len(BaseItems[seq.ref])),
                      weakref_cache |-> EmptyMap,
                      map_funcs     |-> <<IF map_func = "None"
                                          THEN "id_func" ELSE map_func>>]>>]
    ELSE [raised |-> "ValueError", self |-> <<>>]

\* NewSeq that puts map_func before the functions of the sequence it is
\* given.
NewSeqPrepends(seq, map_func) ==
    IF map_func # "None" /\ ~IsCallable(map_func)
    THEN [raised |-> "ValueError", self |-> <<>>]
    ELSE IF seq.kind = "lazy"
    THEN [raised |-> "none",
          self |-> <<[base_seq      |-> seqs[seq.ref].base_seq,
                      base_range    |-> seqs[seq.ref].base_range,
                      weakref_cache |-> EmptyMap,
                      map_funcs     |-> (IF map_func # "None"
                                         THEN <<map_func>> ELSE <<>>)
                                        \o seqs[seq.ref].map_funcs]>>]
    ELSE IF seq.kind = "base"
    THEN [raised |-> "none",
          self |-> <<[base_seq      |-> seq.ref,
                      base_range    |-> FullRange(Len(BaseItems[seq.ref])),
                      weakref_cache |-> EmptyMap,
                      map_funcs     |-> <<IF map_func = "None"
                                          THEN "id_func" ELSE map_func>>]>>]
    ELSE [raised |-> "ValueError", self |-> <<>>]

\* __init__(self, seq, map_func): the exception it raises and the object it
\* leaves.
NewSeq(seq, map_func) ==
    IF map_func # "None" /\ ~IsCallable(map_func)
    THEN [raised |-> "ValueError", self |-> <<>>]
    ELSE IF seq.kind = "lazy"
    THEN [raised |-> "none",
          self |-> <<[base_seq      |-> seqs[seq.ref].base_seq,
                      base_range    |-> seqs[seq.ref].base_range,
                      weakref_cache |-> EmptyMap,
                      map_funcs     |-> seqs[seq.ref].map_funcs \o
                                        (IF map_func # "None"
                                         THEN <<map_func>> ELSE <<>>)]>>]
    ELSE IF seq.kind = "base"
    THEN [raised |-> "none",
          self |-> <<[base_seq      |-> seq.ref,
                      base_range    |-> FullRange(Len(BaseItems[seq.ref])),
                      weakref_cache |-> EmptyMap,
                      map_funcs     |-> <<IF map_func = "None"
                                          THEN "id_func" ELSE map_func>>]>>]
    ELSE [raised |-> "ValueError", self |-> <<>>]

\* The list the same construction gives eagerly (random_test: seq, seq_s);
\* there is none for a function that cannot be called with one argument.
NewEager(seq, map_func) ==
    IF map_func \notin Funcs \cup {"None"} THEN <<>>
    ELSE IF seq.kind = "lazy"
    THEN IF map_func = "None" THEN eager[seq.ref]
         ELSE ListMap(map_func, eager[seq.ref])
    ELSE ListMap(IF map_func = "None" THEN "id_func" ELSE map_func,
                 [k \in 1 .. Len(BaseItems[seq.ref]) |-> Raw(BaseItems[seq.ref][k])])

Outcome(op, self, arg, raised, computed, result) ==
    [op |-> op, self |-> self, arg |-> arg, raised |-> raised,
     computed |-> computed, result |-> result]

Init ==
    /\ seqs = EmptyMap
    /\ heap = EmptyMap
    /\ ref_lru = [items |-> <<>>, maxlen |-> PoolMaxLen]
    /\ held = {}
    /\ eager = EmptyMap
    /\ depth = EmptyMap
    /\ log = <<>>
    /\ last = Outcome("init", "-", <<>>, "none", 0, <<>>)

\* t = LazySequence(seq, map_func)
Construct(t, seq, map_func) ==
    /\ seq.kind = "lazy" => seq.ref \in DOMAIN seqs
    /\ LET new == NewSeq(seq, map_func)
       IN  IF new.raised # "none"
           THEN /\ last' = Outcome("init_seq", t, <<seq, map_func>>, new.raised, 0, <<>>)
                /\ UNCHANGED <<seqs, heap, ref_lru, held, eager, depth>>
           ELSE /\ seqs' = Extend(seqs, t, new.self[1])
                /\ eager' = Extend(eager, t, NewEager(seq, map_func))
                /\ depth' = Extend(depth, t, IF seq.kind = "lazy"
                                             THEN depth[seq.ref] ELSE 0)
                /\ last' = Outcome("init_seq", t, <<seq, map_func>>, "none", 0, <<>>)
                /\ UNCHANGED <<heap, ref_lru, held>>

(***************************************************************************)
(* __getitem__                                                             *)
(***************************************************************************)
\* GetItemSlice that reads the first element of the sequence it slices.
GetItemSliceReadsFirst(t, v, sl) ==
    /\ v \in DOMAIN seqs
    /\ IF SliceRaises(sl)
       THEN /\ last' = Outcome("getitem_slice", v, sl, "ValueError", 0, <<>>)
            /\ UNCHANGED <<seqs, heap, ref_lru, held, eager, depth>>
       ELSE LET sub == NewSeq([kind |-> "lazy", ref |-> v], "None").self[1]
                r   == RangeSlice(seqs[v].base_range, sl)
                g   == GetInt(Store, v, 0)
            IN  /\ seqs' = Extend(g.st.seqs, t, [sub EXCEPT !.base_range = r])
                /\ heap' = g.st.heap
                /\ ref_lru' = g.st.ref_lru
                /\ eager' = Extend(eager, t, ListSlice(eager[v], sl))
                /\ depth' = Extend(depth, t, depth[v] + 1)
                /\ last' = Outcome("getitem_slice", v, sl, "none", g.computed, <<t>>)
                /\ UNCHANGED held

\* t = v[sl] for a slice sl: sub = LazySequence(self), then
\* sub._base_range = self._base_range[index].
GetItemSlice(t, v, sl) ==
    /\ v \in DOMAIN seqs
    /\ IF SliceRaises(sl)
       THEN /\ last' = Outcome("getitem_slice", v, sl, "ValueError", 0, <<>>)
            /\ UNCHANGED <<seqs, heap, ref_lru, held, eager, depth>>
       ELSE LET sub == NewSeq([kind |-> "lazy", ref |-> v], "None").self[1]
                r   == RangeSlice(seqs[v].base_range, sl)
            IN  /\ seqs' = Extend(seqs, t, [sub EXCEPT !.base_range = r])
                /\ eager' = Extend(eager, t, ListSlice(eager[v], sl))
                /\ depth' = Extend(depth, t, depth[v] + 1)
                /\ last' = Outcome("getitem_slice", v, sl, "none", 0, <<t>>)
                /\ UNCHANGED <<heap, ref_lru, held>>

\* GetItemInt that, when the sequence has no entry for the index, returns the
\* entry another sequence has for it.
GetItemIntFromOthers(v, index, keep) ==
    /\ v \in DOMAIN seqs
    /\ LET others == {w \in DOMAIN seqs \ {v} :
                         index \in DOMAIN seqs[w].weakref_cache}
           r == GetInt(Store, v, index)
       IN  IF index \notin DOMAIN seqs[v].weakref_cache /\ others # {}
           THEN LET w == CHOOSE w \in others : TRUE
                IN  /\ ~keep
                    /\ last' = Outcome("getitem", v, index, "none", 0,
                                       <<heap[seqs[w].weakref_cache[index]]>>)
                    /\ UNCHANGED <<seqs, heap, ref_lru, held, eager, depth>>
           ELSE /\ keep => /\ r.obj # <<>>
                           /\ Cardinality(held \cup {r.obj[1]}) <= MaxHeld
                /\ seqs' = r.st.seqs
                /\ heap' = r.st.heap
                /\ ref_lru' = r.st.ref_lru
                /\ held' = IF keep THEN held \cup {r.obj[1]} ELSE held
                /\ last' = Outcome("getitem", v, index, r.raised, r.computed, r.item)
                /\ UNCHANGED <<eager, depth>>

\* GetItemInt that, on a read served from the cache, moves the value to the
\* newest end of _ref_lru.
GetItemIntRefreshes(v, index, keep) ==
    /\ v \in DOMAIN seqs
    /\ LET r == GetInt(Store, v, index)
           hit == r.raised = "none" /\ r.computed = 0
           others == SelectSeq(r.st.ref_lru.items, LAMBDA o : <<o>> # r.obj)
       IN  /\ keep => /\ r.obj # <<>>
                      /\ Cardinality(held \cup {r.obj[1]}) <= MaxHeld
           /\ seqs' = r.st.seqs
           /\ heap' = r.st.heap
           /\ ref_lru' = IF hit /\ r.obj[1] \in Range(r.st.ref_lru.items)
                         THEN [r.st.ref_lru EXCEPT !.items = Append(others, r.obj[1])]
                         ELSE r.st.ref_lru
           /\ held' = IF keep THEN held \cup {r.obj[1]} ELSE held
           /\ last' = Outcome("getitem", v, index, r.raised, r.computed, r.item)
           /\ UNCHANGED <<eager, depth>>

\* v[index] for an integer index; keep says whether the caller keeps the
\* returned object.
GetItemInt(v, index, keep) ==
    /\ v \in DOMAIN seqs
    /\ LET r == GetInt(Store, v, index)
       IN  /\ keep => /\ r.obj # <<>>
                      /\ Cardinality(held \cup {r.obj[1]}) <= MaxHeld
           /\ seqs' = r.st.seqs
           /\ heap' = r.st.heap
           /\ ref_lru' = r.st.ref_lru
           /\ held' = IF keep THEN held \cup {r.obj[1]} ELSE held
           /\ last' = Outcome("getitem", v, index, r.raised, r.computed, r.item)
           /\ UNCHANGED <<eager, depth>>

\* The caller drops its reference to object o.
Release(o) ==
    /\ o \in held
    /\ LET st == Reclaim([Store EXCEPT !.held = @ \ {o}])
       IN  /\ seqs' = st.seqs
           /\ heap' = st.heap
           /\ held' = st.held
    /\ last' = Outcome("release", "-", o, "none", 0, <<>>)
    /\ UNCHANGED <<ref_lru, eager, depth>>

\* len(v)
LenOp(v) ==
    /\ v \in DOMAIN seqs
    /\ last' = Outcome("len", v, <<>>, "none", 0, RangeLen(seqs[v].base_range))
    /\ UNCHANGED <<seqs, heap, ref_lru, held, eager, depth>>

\* Sequence.__iter__: self[0], self[1], ... until IndexError; any other
\* exception reaches the caller.
RECURSIVE IterFrom(_, _, _)
IterFrom(st, v, i) ==
    LET r == GetInt(st, v, i)
    IN  IF r.raised = "IndexError"
        THEN [st |-> st, raised |-> "none", items |-> <<>>, computed |-> 0]
        ELSE IF r.raised # "none"
        THEN [st |-> st, raised |-> r.raised, items |-> <<>>,
              computed |-> r.computed]
        ELSE LET rest == IterFrom(r.st, v, i + 1)
             IN  [st |-> rest.st, raised |-> rest.raised,
                  items |-> IF rest.raised = "none"
                            THEN r.item \o rest.items ELSE <<>>,
                  computed |-> r.computed + rest.computed]

\* list(v)
ListOp(v) ==
    /\ v \in DOMAIN seqs
    /\ LET r == IterFrom(Store, v, 0)
       IN  /\ seqs' = r.st.seqs
           /\ heap' = r.st.heap
           /\ ref_lru' = r.st.ref_lru
           /\ last' = Outcome("list", v, <<>>, r.raised, r.computed, r.items)
    /\ UNCHANGED <<held, eager, depth>>

\* Sequence.__contains__: any(e is x or e == x for e in self)
RECURSIVE ContainsFrom(_, _, _, _)
ContainsFrom(st, v, i, x) ==
    LET r == GetInt(st, v, i)
    IN  IF r.raised = "IndexError"
        THEN [st |-> st, raised |-> "none", found |-> FALSE, computed |-> 0]
        ELSE IF r.raised # "none"
        THEN [st |-> st, raised |-> r.raised, found |-> FALSE,
              computed |-> r.computed]
        ELSE IF r.item[1] = x
        THEN [st |-> r.st, raised |-> "none", found |-> TRUE,
              computed |-> r.computed]
        ELSE LET rest == ContainsFrom(r.st, v, i + 1, x)
             IN  [rest EXCEPT !.computed = @ + r.computed]

\* ContainsOp that starts the search at index 1.
ContainsOpFromOne(v, x) ==
    /\ v \in DOMAIN seqs
    /\ LET r == ContainsFrom(Store, v, 1, x)
       IN  /\ seqs' = r.st.seqs
           /\ heap' = r.st.heap
           /\ ref_lru' = r.st.ref_lru
           /\ last' = Outcome("contains", v, x, r.raised, r.computed, r.found)
    /\ UNCHANGED <<held, eager, depth>>

\* x in v
ContainsOp(v, x) ==
    /\ v \in DOMAIN seqs
    /\ LET r == ContainsFrom(Store, v, 0, x)
       IN  /\ seqs' = r.st.seqs
           /\ heap' = r.st.heap
           /\ ref_lru' = r.st.ref_lru
           /\ last' = Outcome("contains", v, x, r.raised, r.computed, r.found)
    /\ UNCHANGED <<held, eager, depth>>

\* v == w: LazySequence defines no __eq__ and Sequence provides none, so
\* the comparison is object identity.
EqOp(v, w) ==
    /\ v \in DOMAIN seqs
    /\ w \in DOMAIN seqs
    /\ last' = Outcome("eq", v, w, "none", 0, v = w)
    /\ UNCHANGED <<seqs, heap, ref_lru, held, eager, depth>>

\* v.base_sequence
BaseSequenceOp(v) ==
    /\ v \in DOMAIN seqs
    /\ last' = Outcome("base_sequence", v, <<>>, "none", 0, seqs[v].base_seq)
    /\ UNCHANGED <<seqs, heap, ref_lru, held, eager, depth>>

\* LazySequence.set_cache_size(maxlen): cls._weakref_lru does not exist, the
\* attribute lookup raises before the deque is rebuilt.
SetCacheSize(maxlen) ==
    /\ last' = Outcome("set_cache_size", "-", maxlen, "AttributeError", 0, <<>>)
    /\ UNCHANGED <<seqs, heap, ref_lru, held, eager, depth>>

(***************************************************************************)
(* The specifications.                                                     *)
(***************************************************************************)
ContainsArgs == {Raw(0), Raw(1), [val |-> 1, weak |-> TRUE]}

CacheSizes == {1, 3}

\* Whether no element of the sequence bound to t is cached.
Uncached(t) == t \in DOMAIN seqs => seqs[t].weakref_cache = EmptyMap

\* The slices of the caching scenarios: a reversal, a tail and the step 0.
CacheSlices ==
    {[start |-> NoneV, stop |-> NoneV, step |-> Some(-1)],
     [start |-> Some(1), stop |-> NoneV, step |-> NoneV],
     [start |-> NoneV, stop |-> NoneV, step |-> Some(0)]}

\* The operations of the class: lazy wraps base 1 (or is given something
\* that is no Sequence), lazy_s is derived from lazy by a map function or a
\* slice, elements are read one at a time and the caller may keep what it
\* reads, lazy_s is listed. A variable is bound anew only while its sequence
\* has nothing cached. (The test scenario below lists and searches both
\* sequences.)
Next ==
    /\ \/ /\ Uncached("lazy")
          /\ Uncached("lazy_s")
          /\ \E seq \in {[kind |-> "base", ref |-> 1], [kind |-> "duck", ref |-> 0],
                         [kind |-> "other", ref |-> 0]},
                m \in {"None", "box", "two_args", "not_callable"} :
                   Construct("lazy", seq, m)
       \/ /\ Uncached("lazy_s")
          /\ \E m \in {"None", "box"} :
                Construct("lazy_s", [kind |-> "lazy", ref |-> "lazy"], m)
       \/ /\ Uncached("lazy_s")
          /\ \E sl \in CacheSlices : GetItemSlice("lazy_s", "lazy", sl)
       \/ \E v \in SeqVars, i \in Indices, keep \in BOOLEAN : GetItemInt(v, i, keep)
       \/ \E o \in held : Release(o)
       \/ \E v \in SeqVars : LenOp(v)
       \/ ListOp("lazy_s")
       \/ \E v \in SeqVars, w \in SeqVars : EqOp(v, w)
       \/ \E v \in SeqVars : BaseSequenceOp(v)
       \/ \E n \in CacheSizes : SetCacheSize(n)
    /\ UNCHANGED log

Spec == Init /\ [][Next]_vars

\* The log after a read of v[index]: the read is added if it gave a weakly
\* referenceable value; the log keeps the latest maxlen + 2 reads.
Logged(v, index) ==
    LET r == GetInt(Store, v, index)
        a == Append(log, [key |-> <<v, index>>, computed |-> r.computed])
        n == ref_lru.maxlen + 2
    IN  IF r.obj = <<>> THEN log
        ELSE IF Len(a) > n THEN SubSeq(a, Len(a) - n + 1, Len(a)) ELSE a

PoolIndices == {-1, 0}

\* The capacity scenarios: lazy wraps base 1 with a map function that gives
\* weakly referenceable values, lazy_s is derived from it, then elements of
\* both are read one at a time, the caller keeping none of them; the reads
\* are logged.
PoolNext ==
    \/ /\ "lazy" \notin DOMAIN seqs
       /\ Construct("lazy", [kind |-> "base", ref |-> 1], "box")
       /\ UNCHANGED log
    \/ /\ "lazy_s" \notin DOMAIN seqs
       /\ \E m \in {"None", "box"} :
             Construct("lazy_s", [kind |-> "lazy", ref |-> "lazy"], m)
       /\ UNCHANGED log
    \/ /\ "lazy_s" \notin DOMAIN seqs
       /\ \E sl \in CacheSlices : GetItemSlice("lazy_s", "lazy", sl)
       /\ UNCHANGED log
    \/ \E v \in SeqVars, i \in PoolIndices :
          /\ GetItemInt(v, i, FALSE)
          /\ log' = Logged(v, i)

PoolSpec == Init /\ [][PoolNext]_vars

\* random_test: lazy wraps a base once, lazy_s is sliced from lazy, mapped
\* and sliced again, then listed, measured, compared and searched.
TestNext ==
    /\ \/ /\ "lazy" \notin DOMAIN seqs
          /\ \E b \in {1, 3}, m \in Funcs \cup {"None"} :
                Construct("lazy", [kind |-> "base", ref |-> b], m)
       \/ /\ Uncached("lazy_s")
          /\ \E sl \in Slices : GetItemSlice("lazy_s", "lazy", sl)
       \/ /\ Uncached("lazy_s")
          /\ "lazy_s" \in DOMAIN seqs
          /\ Len(seqs["lazy_s"].map_funcs) = 1
          /\ \E m \in Funcs :
                Construct("lazy_s", [kind |-> "lazy", ref |-> "lazy_s"], m)
       \/ /\ Uncached("lazy_s")
          /\ "lazy_s" \in DOMAIN seqs
          /\ Len(seqs["lazy_s"].map_funcs) = 2
          /\ depth["lazy_s"] = 1
          /\ \E sl \in Slices : GetItemSlice("lazy_s", "lazy_s", sl)
       \/ \E v \in SeqVars : ListOp(v)
       \/ \E v \in SeqVars : LenOp(v)
       \/ \E x \in ContainsArgs : ContainsOp("lazy_s", x)
       \/ \E v \in SeqVars, w \in SeqVars : EqOp(v, w)
       \/ \E v \in SeqVars : BaseSequenceOp(v)
    /\ UNCHANGED log

TestSpec == Init /\ [][TestNext]_vars


(***************************************************************************)
(* The claims.                                                             *)
(***************************************************************************)
\* Whether x is an element of the list xs.
Occurs(x, xs) == \E k \in DOMAIN xs : xs[k] = x

\* C1: the elements list(v) produces, in order, are the list obtained
\* eagerly by mapping and slicing lists in the same order: in particular
\* LazySequence(LazySequence(S, f)[s1], g)[s2] gives
\* list(map(g, list(map(f, S))[s1]))[s2].
C1_LazyEqualsEager ==
    last.op = "list" => last.result = eager[last.self]

\* A list of a sequence that was sliced, mapped and sliced again, runs
\* backwards and still has two elements or more.
C1_Witness ==
    /\ last.op = "list"
    /\ last.self = "lazy_s"
    /\ depth["lazy_s"] = 2
    /\ Len(seqs["lazy_s"].map_funcs) = 2
    /\ seqs["lazy_s"].base_range.step < 0
    /\ Len(last.result) >= 2

\* C2: a read of v[index] whose value is cached and still in _ref_lru does
\* not run _apply_maps and returns the cached value; a read of an element that
\* is not cached runs it once.
C2_HitDoesNotRecompute ==
    [][last'.op = "getitem" /\ last'.raised = "none" =>
         LET ca == seqs[last'.self].weakref_cache
         IN  IF last'.arg \in DOMAIN ca
             THEN ca[last'.arg] \in Range(ref_lru.items) =>
                     /\ last'.computed = 0
                     /\ last'.result = <<heap[ca[last'.arg]]>>
             ELSE last'.computed = 1]_vars

\* A read served from the cache while its value is in _ref_lru.
C2_Witness ==
    /\ last.op = "getitem"
    /\ last.raised = "none"
    /\ last.computed = 0
    /\ last.arg \in DOMAIN seqs[last.self].weakref_cache
    /\ seqs[last.self].weakref_cache[last.arg] \in Range(ref_lru.items)

\* The keys of the first n entries of the log are pairwise distinct.
DistinctKeys(n) ==
    \A j, k \in 1 .. n : j # k => log[j].key # log[k].key

\* C3 as stated: after reads of maxlen + 1 distinct elements, a read of the
\* first of them runs _apply_maps again and a read of any of the others does
\* not.
C3_OldestOfAccessedRecomputes ==
    LET n == ref_lru.maxlen
    IN  (Len(log) = n + 2 /\ DistinctKeys(n + 1)) =>
           /\ log[n + 2].key = log[1].key => log[n + 2].computed = 1
           /\ \A k \in 2 .. (n + 1) :
                 log[n + 2].key = log[k].key => log[n + 2].computed = 0

\* C3 amended: the same, after reads of maxlen + 1 distinct elements each of
\* which ran _apply_maps (none was served from the cache).
C3_OldestOfComputedRecomputes ==
    LET n == ref_lru.maxlen
    IN  (/\ Len(log) = n + 2
         /\ DistinctKeys(n + 1)
         /\ \A k \in 1 .. (n + 1) : log[k].computed = 1) =>
           /\ log[n + 2].key = log[1].key => log[n + 2].computed = 1
           /\ \A k \in 2 .. (n + 1) :
                 log[n + 2].key = log[k].key => log[n + 2].computed = 0

\* maxlen + 1 distinct elements were computed, then the first of them was
\* read again and computed again.
C3_Witness ==
    LET n == ref_lru.maxlen
    IN  /\ Len(log) = n + 2
        /\ DistinctKeys(n + 1)
        /\ \A k \in 1 .. (n + 1) : log[k].computed = 1
        /\ log[n + 2].key = log[1].key
        /\ log[n + 2].computed = 1

\* The last n items of the sequence xs.
LastItems(xs, n) ==
    IF Len(xs) > n THEN SubSeq(xs, Len(xs) - n + 1, Len(xs)) ELSE xs

\* C4: set_cache_size(maxlen) succeeds and leaves a deque of that maxlen that
\* holds the latest min(maxlen, count) items of the old one in their order.
C4_SetCacheSizeRebuilds ==
    [][last'.op = "set_cache_size" =>
         /\ last'.raised = "none"
         /\ ref_lru'.maxlen = last'.arg
         /\ ref_lru'.items = LastItems(ref_lru.items, last'.arg)]_vars

\* C5: v == w is true exactly when v and w have the same length and equal
\* elements at every position.
C5_EqualIffSameElements ==
    last.op = "eq" => (last.result <=> eager[last.self] = eager[last.arg])

\* C6 as stated: v[i] raises IndexError exactly when i is outside
\* [0, len(v)).
C6_RaisesOutsideZeroToLen ==
    last.op = "getitem" =>
       LET n == RangeLen(seqs[last.self].base_range)
       IN  last.raised = "IndexError" <=> (last.arg < 0 \/ last.arg >= n)

\* C6 amended: v[i] raises IndexError exactly when i is outside
\* [-len(v), len(v)); for i in [0, len(v)) it returns element i and for i in
\* [-len(v), 0) element len(v) + i; it raises nothing else, unless one of
\* the sequence's functions cannot be called with one argument.
C6_RaisesOutsideMinusLenToLen ==
    last.op = "getitem" =>
       LET n == RangeLen(seqs[last.self].base_range)
           j == IF last.arg < 0 THEN last.arg + n ELSE last.arg
       IN  /\ last.raised \notin {"none", "IndexError"} =>
                 \E k \in DOMAIN seqs[last.self].map_funcs :
                    seqs[last.self].map_funcs[k] = "two_args"
           /\ last.raised = "IndexError" <=> (last.arg < -n \/ last.arg >= n)
           /\ last.raised = "none" => last.result = <<eager[last.self][j + 1]>>

\* A read at a negative index that returned an element.
C6_Witness ==
    /\ last.op = "getitem"
    /\ last.arg < 0
    /\ last.raised = "none"
    /\ last.result = <<eager[last.self][Len(eager[last.self]) + last.arg + 1]>>

\* C7 as stated: v[start:stop:step] never raises.
C7_SliceNeverRaises ==
    last.op = "getitem_slice" => last.raised = "none"

\* C7 amended: v[start:stop:step] raises (ValueError) exactly when step is
\* 0; for every other start, stop and step it gives a sequence, of length 0
\* when no position matches.
C7_SliceRaisesOnZeroStepOnly ==
    last.op = "getitem_slice" =>
       /\ last.raised \in {"none", "ValueError"}
       /\ last.raised = "ValueError" <=> last.arg.step = Some(0)
       /\ last.raised = "none" =>
             /\ last.result[1] \in DOMAIN seqs
             /\ RangeLen(seqs[last.result[1]].base_range) = Len(eager[last.result[1]])

\* A slice whose start lies beyond the sequence gave a sequence of length 0.
C7_Witness ==
    /\ last.op = "getitem_slice"
    /\ last.raised = "none"
    /\ last.arg.start = Some(4)
    /\ last.arg.step = Some(2)
    /\ RangeLen(seqs[last.result[1]].base_range) = 0
    /\ eager[last.result[1]] = <<>>

\* C8: len(v) is the length of v's range, which is the length of the list
\* obtained eagerly by the same maps and slices.
C8_LenMatches ==
    /\ \A v \in DOMAIN seqs : RangeLen(seqs[v].base_range) = Len(eager[v])
    /\ last.op = "len" =>
          /\ last.result = RangeLen(seqs[last.self].base_range)
          /\ last.result = Len(eager[last.self])

\* len of a sequence that was sliced, mapped and sliced again with a
\* negative step and is not empty.
C8_Witness ==
    /\ last.op = "len"
    /\ last.self = "lazy_s"
    /\ depth["lazy_s"] = 2
    /\ Len(seqs["lazy_s"].map_funcs) = 2
    /\ seqs["lazy_s"].base_range.step = -2
    /\ last.result = 2

\* C9: a sequence built from another one, by LazySequence(seq, f) or by a
\* slice, has the very base object of its source, and no operation changes
\* the base of a sequence.
C9_SharedBase ==
    [][/\ (last'.op = "init_seq" /\ last'.raised = "none"
              /\ last'.arg[1].kind = "lazy") =>
             seqs'[last'.self].base_seq = seqs[last'.arg[1].ref].base_seq
       /\ (last'.op = "getitem_slice" /\ last'.raised = "none") =>
             seqs'[last'.result[1]].base_seq = seqs[last'.self].base_seq
       /\ LET bound == IF last'.raised # "none" THEN {}
                       ELSE IF last'.op = "init_seq" THEN {last'.self}
                       ELSE IF last'.op = "getitem_slice" THEN {last'.result[1]}
                       ELSE {}
          IN  \A v \in DOMAIN seqs \ bound :
                 v \in DOMAIN seqs' /\ seqs'[v].base_seq = seqs[v].base_seq]_vars

\* lazy_s was sliced, mapped and sliced again and has the base lazy wraps.
C9_Witness ==
    /\ last.op = "getitem_slice"
    /\ last.raised = "none"
    /\ depth["lazy_s"] = 2
    /\ Len(seqs["lazy_s"].map_funcs) = 2
    /\ seqs["lazy_s"].base_seq = seqs["lazy"].base_seq

\* C10: x in v is true exactly when x equals an element of the list obtained
\* eagerly by the same maps and slices; on an empty sequence it is false.
C10_ContainsIffOccurs ==
    last.op = "contains" => (last.result <=> Occurs(last.arg, eager[last.self]))

\* A value was found in a sequence that was sliced, mapped and sliced again,
\* at its first position.
C10_Witness ==
    /\ last.op = "contains"
    /\ last.result = TRUE
    /\ depth[last.self] = 2
    /\ Len(seqs[last.self].map_funcs) = 2
    /\ eager[last.self][1] = last.arg

\* C11 as stated: LazySequence(seq, map_func) raises ValueError exactly when
\* map_func is given and cannot be called with one argument, or seq has no
\* __len__ and __getitem__; a construction that raises binds no sequence and
\* one that does not raise binds one.
C11_FailsUnlessOneArgAndIndexable ==
    [][last'.op = "init_seq" =>
         LET seq      == last'.arg[1]
             map_func == last'.arg[2]
         IN  /\ last'.raised = "ValueError" <=>
                   \/ map_func \notin Funcs \cup {"None"}
                   \/ seq.kind \notin {"lazy", "base", "duck"}
             /\ last'.raised # "ValueError" =>
                   /\ last'.raised = "none"
                   /\ last'.self \in DOMAIN seqs'
             /\ last'.raised = "ValueError" => seqs' = seqs]_vars

\* C11 amended: it raises ValueError exactly when map_func is given and is
\* not callable, or seq is neither a LazySequence nor a Sequence; a callable
\* of any arity is accepted, and an object that only defines __len__ and
\* __getitem__ is rejected.
C11_FailsUnlessCallableAndSequence ==
    [][last'.op = "init_seq" =>
         LET seq      == last'.arg[1]
             map_func == last'.arg[2]
         IN  /\ last'.raised = "ValueError" <=>
                   \/ map_func = "not_callable"
                   \/ seq.kind \notin {"lazy", "base"}
             /\ last'.raised # "ValueError" =>
                   /\ last'.raised = "none"
                   /\ last'.self \in DOMAIN seqs'
             /\ last'.raised = "ValueError" => seqs' = seqs]_vars

\* A construction that was given a list and an object that is not callable
\* raised ValueError and bound nothing.
C11_Witness ==
    /\ last.op = "init_seq"
    /\ last.arg[1].kind = "base"
    /\ last.arg[2] = "not_callable"
    /\ last.raised = "ValueError"
    /\ last.self \notin DOMAIN seqs

\* C12: _ref_lru never holds more than maxlen items; a read that computes a
\* weakly referenceable value appends it, dropping the oldest item and no
\* other when the deque was full and dropping nothing when it was not; no
\* other read changes the deque.
C12_PoolBoundedFifo ==
    [][/\ Len(ref_lru'.items) <= ref_lru'.maxlen
       /\ last'.op = "getitem" =>
             LET pushed == /\ last'.raised = "none"
                           /\ last'.computed = 1
                           /\ HasWeakref(last'.result[1])
                 kept   == IF Len(ref_lru.items) = ref_lru.maxlen
                           THEN Tail(ref_lru.items) ELSE ref_lru.items
             IN  IF pushed
                 THEN \E o \in DOMAIN heap' \ Range(ref_lru.items) :
                         /\ heap'[o] = last'.result[1]
                         /\ ref_lru'.items = Append(kept, o)
                 ELSE ref_lru' = ref_lru]_vars

\* A read computed a value after maxlen others had been computed and not
\* read since: its push found the deque full.
C12_Witness ==
    LET n == ref_lru.maxlen
    IN  /\ last.op = "getitem"
        /\ last.computed = 1
        /\ Len(log) = n + 1
        /\ \A k \in 1 .. (n + 1) : log[k].computed = 1
        /\ Len(ref_lru.items) = n

\* The number of cache entries of all sequences together.
RECURSIVE CachedTotal(_)
CachedTotal(S) ==
    IF S = {} THEN 0
    ELSE LET v == CHOOSE w \in S : TRUE
         IN  Cardinality(DOMAIN seqs[v].weakref_cache) + CachedTotal(S \ {v})

\* C13: _ref_lru is one deque for all sequences. While the caller keeps no
\* value, the sequences together have at most maxlen elements cached; and
\* when a sequence computed an element and maxlen further values were then
\* computed by other sequences, a read of that element computes it again.
C13_PoolSharedByAll ==
    LET n == ref_lru.maxlen
    IN  /\ held = {} => CachedTotal(DOMAIN seqs) <= n
        /\ (/\ Len(log) = n + 2
            /\ \A k \in 1 .. (n + 1) : log[k].computed = 1
            /\ \A k \in 2 .. (n + 1) : log[k].key[1] # log[1].key[1]
            /\ log[n + 2].key = log[1].key) => log[n + 2].computed = 1

\* lazy computed an element, lazy_s then computed maxlen elements, and lazy
\* computed its element again.
C13_Witness ==
    LET n == ref_lru.maxlen
    IN  /\ Len(log) = n + 2
        /\ \A k \in 1 .. (n + 2) : log[k].computed = 1
        /\ log[1].key[1] = "lazy"
        /\ \A k \in 2 .. (n + 1) : log[k].key[1] = "lazy_s"
        /\ log[n + 2].key = log[1].key
        /\ last.op = "getitem"
        /\ last.self = "lazy"

\* C14: every entry of every sequence's cache, at index i, is the value the
\* sequence's map functions give for base[range[i]] with the range and the
\* functions the sequence has now.
C14_CacheEntriesCurrent ==
    \A v \in DOMAIN seqs :
       \A i \in DOMAIN seqs[v].weakref_cache :
          /\ RangeHas(seqs[v].base_range, i)
          /\ seqs[v].weakref_cache[i] \in DOMAIN heap
          /\ heap[seqs[v].weakref_cache[i]] =
                apply_maps(seqs[v].map_funcs,
                           BaseItem(seqs[v].base_seq,
                                    RangeItem(seqs[v].base_range, i)))

\* lazy and a sequence sliced from it both have an element cached at the
\* same index, and the two cached values differ.
C14_Witness ==
    /\ DOMAIN seqs = SeqVars
    /\ depth["lazy_s"] = 1
    /\ \E i \in DOMAIN seqs["lazy"].weakref_cache
               \cap DOMAIN seqs["lazy_s"].weakref_cache :
          heap[seqs["lazy"].weakref_cache[i]]
             # heap[seqs["lazy_s"].weakref_cache[i]]

\* C15: v[sl] for a slice sl runs no map function and reads no element of
\* the base (the two happen together, on line 60), leaves the sequence it is
\* applied to, every other sequence, the objects and _ref_lru as they were,
\* and binds a sequence with the base and the map functions of v, an empty
\* cache and a range of its own, made of positions of the range of v.
C15_SliceOnlyDerivesRange ==
    [][last'.op = "getitem_slice" =>
         /\ last'.computed = 0
         /\ ref_lru' = ref_lru
         /\ heap' = heap
         /\ last'.raised # "none" => seqs' = seqs
         /\ last'.raised = "none" =>
               LET v == last'.self
                   t == last'.result[1]
               IN  /\ \A w \in DOMAIN seqs \ {t} : seqs'[w] = seqs[w]
                   /\ DOMAIN seqs' = DOMAIN seqs \cup {t}
                   /\ seqs'[t].base_seq = seqs[v].base_seq
                   /\ seqs'[t].map_funcs = seqs[v].map_funcs
                   /\ seqs'[t].weakref_cache = EmptyMap
                   /\ \A i \in 0 .. (RangeLen(seqs'[t].base_range) - 1) :
                         \E j \in 0 .. (RangeLen(seqs[v].base_range) - 1) :
                            RangeItem(seqs'[t].base_range, i)
                               = RangeItem(seqs[v].base_range, j)]_vars

\* A sequence with elements in its cache and in _ref_lru was sliced into a
\* shorter one.
C15_Witness ==
    /\ last.op = "getitem_slice"
    /\ last.raised = "none"
    /\ seqs[last.self].weakref_cache # EmptyMap
    /\ ref_lru.items # <<>>
    /\ last.result[1] # last.self
    /\ seqs[last.result[1]].base_range # seqs[last.self].base_range

\* The operations that read elements of the sequence last.self.
IsAccess(op) == op \in {"getitem", "list", "contains"}

\* C16 as stated: a sequence derived from another by a map function or a
\* slice starts with an empty cache; an access to a sequence adds no entry
\* to and removes no entry from the cache of any other sequence; and a read
\* of an element that the sequence's own cache does not have computes it,
\* whatever the other caches hold.
C16_CachesUntouchedByOthers ==
    [][/\ (/\ last'.op \in {"init_seq", "getitem_slice"}
           /\ last'.raised = "none") =>
             LET t == IF last'.op = "getitem_slice"
                      THEN last'.result[1] ELSE last'.self
             IN  seqs'[t].weakref_cache = EmptyMap
       /\ IsAccess(last'.op) =>
             \A w \in DOMAIN seqs \ {last'.self} :
                seqs'[w].weakref_cache = seqs[w].weakref_cache
       /\ (/\ last'.op = "getitem"
           /\ last'.raised = "none"
           /\ last'.arg \notin DOMAIN seqs[last'.self].weakref_cache) =>
             last'.computed = 1]_vars

\* C16 amended: the same, except that an access may remove entries of
\* another sequence's cache: those whose value the access pushed out of
\* _ref_lru and that the caller does not hold. It adds none and changes none.
C16_CachesOnlyLoseEvicted ==
    [][/\ (/\ last'.op \in {"init_seq", "getitem_slice"}
           /\ last'.raised = "none") =>
             LET t == IF last'.op = "getitem_slice"
                      THEN last'.result[1] ELSE last'.self
             IN  seqs'[t].weakref_cache = EmptyMap
       /\ IsAccess(last'.op) =>
             \A w \in DOMAIN seqs \ {last'.self} :
                LET old == seqs[w].weakref_cache
                    new == seqs'[w].weakref_cache
                IN  /\ DOMAIN new \subseteq DOMAIN old
                    /\ \A i \in DOMAIN new : new[i] = old[i]
                    /\ \A i \in DOMAIN old \ DOMAIN new :
                          /\ old[i] \in Range(ref_lru.items)
                          /\ old[i] \notin Range(ref_lru'.items) \cup held'
       /\ (/\ last'.op = "getitem"
           /\ last'.raised = "none"
           /\ last'.arg \notin DOMAIN seqs[last'.self].weakref_cache) =>
             last'.computed = 1]_vars

\* lazy_s, derived from lazy, computed the element at an index that lazy has
\* in its cache.
C16_Witness ==
    /\ last.op = "getitem"
    /\ last.self = "lazy_s"
    /\ last.raised = "none"
    /\ last.computed = 1
    /\ "lazy" \in DOMAIN seqs
    /\ last.arg \in DOMAIN seqs["lazy"].weakref_cache
    /\ last.arg \in DOMAIN seqs["lazy_s"].weakref_cache

\* The functions fs (one or two of them) applied to x, the first one first.
LeftToRight(fs, x) ==
    IF Len(fs) = 1 THEN CallFunc(fs[1], x)
    ELSE CallFunc(fs[2], CallFunc(fs[1], x))

\* C17: LazySequence(src, g) has the functions of src, in their order,
\* followed by g; neither it nor any other operation changes the functions,
\* the range or the base of a sequence that exists; and the elements a
\* sequence produces are its functions applied to the elements of the base,
\* the first function first.
C17_AppendsToCopy ==
    [][/\ (/\ last'.op = "init_seq"
           /\ last'.raised = "none"
           /\ last'.arg[1].kind = "lazy") =>
             seqs'[last'.self].map_funcs =
                seqs[last'.arg[1].ref].map_funcs \o
                   (IF last'.arg[2] = "None" THEN <<>> ELSE <<last'.arg[2]>>)
       /\ \A w \in DOMAIN seqs :
             \/ /\ last'.op \in {"init_seq", "getitem_slice"}
                /\ last'.raised = "none"
                /\ w = (IF last'.op = "init_seq"
                        THEN last'.self ELSE last'.result[1])
             \/ /\ seqs'[w].map_funcs = seqs[w].map_funcs
                /\ seqs'[w].base_range = seqs[w].base_range
                /\ seqs'[w].base_seq = seqs[w].base_seq
       /\ (last'.op = "list" /\ last'.raised = "none") =>
             LET self == seqs'[last'.self]
             IN  /\ Len(last'.result) = RangeLen(self.base_range)
                 /\ \A k \in 1 .. Len(last'.result) :
                       last'.result[k] =
                          LeftToRight(self.map_funcs,
                                      BaseItem(self.base_seq,
                                               RangeItem(self.base_range, k - 1)))]_vars

\* Whether the two functions give different values on x when applied in the
\* other order.
OrderMatters(fs, x) ==
    CallFunc(fs[2], CallFunc(fs[1], x)) # CallFunc(fs[1], CallFunc(fs[2], x))

\* The list of a sequence with two functions whose order matters for its
\* first element, while lazy, which it was derived from, still has its one
\* function.
C17_Witness ==
    /\ last.op = "list"
    /\ last.self = "lazy_s"
    /\ Len(seqs["lazy_s"].map_funcs) = 2
    /\ Len(seqs["lazy"].map_funcs) = 1
    /\ seqs["lazy_s"].map_funcs[1] = seqs["lazy"].map_funcs[1]
    /\ Len(last.result) >= 1
    /\ OrderMatters(seqs["lazy_s"].map_funcs,
                    BaseItem(seqs["lazy_s"].base_seq,
                             RangeItem(seqs["lazy_s"].base_range, 0)))

\* C18: a read v[index] that gives a value without __weakref__ raises
\* nothing, has run _apply_maps, and leaves every cache, the objects and
\* _ref_lru as they were; so has every read of that element, a later one as
\* well as the first.
C18_UncacheableAlwaysRecomputes ==
    [][(/\ last'.op = "getitem"
        /\ last'.raised = "none"
        /\ ~last'.result[1].weak) =>
          /\ last'.computed = 1
          /\ seqs' = seqs
          /\ heap' = heap
          /\ ref_lru' = ref_lru
          /\ held' = held]_vars

\* A read gave an int while _ref_lru was full of the values of the other
\* sequence.
C18_Witness ==
    /\ last.op = "getitem"
    /\ last.raised = "none"
    /\ ~last.result[1].weak
    /\ last.computed = 1
    /\ Len(ref_lru.items) = ref_lru.maxlen
    /\ seqs[last.self].weakref_cache = EmptyMap

\* C19: a read v[index] served from the cache leaves _ref_lru, its items and
\* their order, as it was, and the caches and the objects too: the deque
\* holds the values in the order they were computed in.
C19_HitLeavesPoolAlone ==
    [][(/\ last'.op = "getitem"
        /\ last'.raised = "none"
        /\ last'.computed = 0) =>
          /\ ref_lru' = ref_lru
          /\ seqs' = seqs
          /\ heap' = heap]_vars

\* An element was read from the cache, the next read computed another
\* element, and the read after that had to compute the first one again: the
\* value left _ref_lru although it was the latest one read.
C19_Witness ==
    LET n == Len(log)
    IN  /\ n >= 3
        /\ log[n - 2].computed = 0
        /\ log[n - 1].computed = 1
        /\ log[n - 1].key # log[n - 2].key
        /\ log[n].key = log[n - 2].key
        /\ log[n].computed = 1
        /\ last.op = "getitem"
        /\ <<last.self, last.arg>> = log[n].key

=============================================================================
